---------------------------- MODULE Spec2Model ----------------------------
(***************************************************************************)
(* A model of the retrieval core of rag-everyone:                          *)
(*   - lib/openai.ts: splitIntoSentences, chunkText, cosineSimilarity      *)
(*   - the search route handlers (scoring, sort, diversity selection)      *)
(*   - the document route handlers (create, update, delete) over the       *)
(*     documents / document_chunks tables                                  *)
(*                                                                         *)
(* Strings are sequences of one-character strings.  The characters are     *)
(* written in ASCII:                                                       *)
(*   "."  the full-width period U+3002        (a sentence terminator)      *)
(*   "!"  the full-width exclamation mark     (a sentence terminator)      *)
(*   "?"  the full-width question mark        (a sentence terminator)      *)
(*   "|"  a line feed                (a sentence terminator, whitespace)   *)
(*   "_"  a space                                            (whitespace)  *)
(*   "a"  any other character, of length 1                                 *)
(*   "L", "M"  a run of BlockLen characters that are neither terminators   *)
(*        nor whitespace; no operation of the code looks inside such a     *)
(*        run, so it is kept as one element whose length is BlockLen       *)
(***************************************************************************)
EXTENDS Integers, Sequences, FiniteSets, TLC

VARIABLES
    \* ---- chunkText called on an input text
    text,        \* the input text
    chunkSize,   \* the chunkSize argument
    overlap,     \* the overlap argument
    out,         \* what the call computed, once called
    \* ---- one search over a candidate pool
    pool,        \* the rows the chunk scan returned, in storage order
    limit,       \* the limit of the request body
    found,       \* what the two search routes returned, once called
    \* ---- the requests of the document and search routes over the tables
    documents,       \* the rows of the table documents
    documentChunks,  \* the rows of the table document_chunks, in rowid order
    lastDocumentId,  \* the AUTOINCREMENT counter of documents
    lastChunkId,     \* the AUTOINCREMENT counter of document_chunks
    requests,        \* for each request, the position and the locals of its handler
    contentsOf,      \* history: every content a document id has held
    \* ---- cosineSimilarity called on two vectors
    argA,            \* the first argument
    argB,            \* the second argument
    cosine,          \* what the call returned, once called
    \* ---- the message POSTs of one thread and their event streams
    messagesTable,   \* the rows of the table messages of the thread, in insertion order
    posts            \* for each POST, the position of its handler, its stream, its reader

chunkVars  == <<text, chunkSize, overlap, out>>
searchVars == <<pool, limit, found>>
storeVars ==
    <<documents, documentChunks, lastDocumentId, lastChunkId, requests, contentsOf>>
cosineVars == <<argA, argB, cosine>>
messageVars == <<messagesTable, posts>>
vars == <<text, chunkSize, overlap, out, pool, limit, found,
          documents, documentChunks, lastDocumentId, lastChunkId, requests, contentsOf,
          argA, argB, cosine, messagesTable, posts>>

(***************************************************************************)
(* Bounds of the model                                                     *)
(***************************************************************************)
MaxText == 5
MaxChunkSize == 3
MaxOverlap == 2
BlockLen == 400

(***************************************************************************)
(* Characters                                                              *)
(***************************************************************************)
Terminators == {".", "!", "?", "|"}
Whitespace  == {"_", "|"}
BlockChars  == {"L", "M"}
TypedChars  == {"a", ".", "!", "|", "_"}

CharLen(c) == IF c \in BlockChars THEN BlockLen ELSE 1

RECURSIVE StrLen(_)
StrLen(s) == IF s = <<>> THEN 0 ELSE CharLen(Head(s)) + StrLen(Tail(s))

RECURSIVE TrimStart(_)
TrimStart(s) ==
    IF s = <<>> THEN <<>>
    ELSE IF Head(s) \in Whitespace THEN TrimStart(Tail(s)) ELSE s

RECURSIVE TrimEnd(_)
TrimEnd(s) ==
    IF s = <<>> THEN <<>>
    ELSE IF s[Len(s)] \in Whitespace THEN TrimEnd(SubSeq(s, 1, Len(s) - 1)) ELSE s

Trim(s) == TrimEnd(TrimStart(s))

RECURSIVE Concat(_)
Concat(ss) == IF ss = <<>> THEN <<>> ELSE Head(ss) \o Concat(Tail(ss))

RECURSIVE FilterNonEmpty(_)
FilterNonEmpty(ss) ==
    IF ss = <<>> THEN <<>>
    ELSE IF Head(ss) = <<>> THEN FilterNonEmpty(Tail(ss))
         ELSE <<Head(ss)>> \o FilterNonEmpty(Tail(ss))

IsPrefix(p, s) == Len(p) <= Len(s) /\ SubSeq(s, 1, Len(p)) = p

(***************************************************************************)
(* text.split(/([.!?\n]+)/g): the pieces between the runs of terminators   *)
(* and, with keep, the runs themselves (the capture group).  A text that   *)
(* starts or ends with a terminator gets an empty first or last piece.     *)
(***************************************************************************)
RECURSIVE SplitFrom(_, _, _, _)
SplitFrom(s, i, piece, keep) ==
    \* piece: the characters of the piece being read (no terminator in it)
    IF i > Len(s) THEN <<piece>>
    ELSE IF s[i] \in Terminators
         THEN LET RECURSIVE RunEnd(_)
                  RunEnd(j) == IF j < Len(s) /\ s[j + 1] \in Terminators
                               THEN RunEnd(j + 1) ELSE j
                  e == RunEnd(i)
              IN  <<piece>> \o (IF keep THEN <<SubSeq(s, i, e)>> ELSE <<>>)
                  \o SplitFrom(s, e + 1, <<>>, keep)
         ELSE SplitFrom(s, i + 1, Append(piece, s[i]), keep)

SplitCapture(s) == SplitFrom(s, 1, <<>>, TRUE)
SplitPlain(s)   == SplitFrom(s, 1, <<>>, FALSE)

(***************************************************************************)
(* sentenceEndings.test(part) of a /g regular expression: the search       *)
(* starts at lastIndex; a match leaves lastIndex after the matched run, a  *)
(* failure resets it to 0.                                                 *)
(***************************************************************************)
RegexTest(part, lastIndex) ==
    LET hits == {i \in (lastIndex + 1)..Len(part) : part[i] \in Terminators}
    IN  IF hits = {} THEN [matched |-> FALSE, lastIndex |-> 0]
        ELSE LET first == CHOOSE i \in hits : \A j \in hits : i <= j
                 RECURSIVE RunEnd(_)
                 RunEnd(j) == IF j < Len(part) /\ part[j + 1] \in Terminators
                              THEN RunEnd(j + 1) ELSE j
             IN  [matched |-> TRUE, lastIndex |-> RunEnd(first)]

(***************************************************************************)
(* splitIntoSentences(text)                                                *)
(***************************************************************************)
RECURSIVE SentenceLoop(_, _, _, _, _)
SentenceLoop(parts, k, sentences, currentSentence, lastIndex) ==
    IF k > Len(parts)
    THEN IF Trim(currentSentence) # <<>>
         THEN Append(sentences, Trim(currentSentence))
         ELSE sentences
    ELSE LET part == parts[k] IN
         IF part = <<>>
         THEN SentenceLoop(parts, k + 1, sentences, currentSentence, lastIndex)
         ELSE LET t == RegexTest(part, lastIndex) IN
              IF t.matched
              THEN IF Trim(currentSentence \o part) # <<>>
                   THEN SentenceLoop(parts, k + 1,
                                     Append(sentences, Trim(currentSentence \o part)),
                                     <<>>, t.lastIndex)
                   ELSE SentenceLoop(parts, k + 1, sentences,
                                     currentSentence \o part, t.lastIndex)
              ELSE SentenceLoop(parts, k + 1, sentences,
                                currentSentence \o part, t.lastIndex)

splitIntoSentences(s) ==
    FilterNonEmpty(SentenceLoop(SplitCapture(s), 1, <<>>, <<>>, 0))

(***************************************************************************)
(* The overlap of chunkText: the pieces of the closed chunk, read from the *)
(* last one back until their length reaches overlap.                       *)
(***************************************************************************)
RECURSIVE FilterNonBlank(_)
FilterNonBlank(ss) ==
    IF ss = <<>> THEN <<>>
    ELSE IF Trim(Head(ss)) = <<>> THEN FilterNonBlank(Tail(ss))
         ELSE <<Head(ss)>> \o FilterNonBlank(Tail(ss))

RECURSIVE OverlapLoop(_, _, _, _, _)
OverlapLoop(currentSentences, i, ov, overlapSentences, overlapLength) ==
    IF ~(i >= 1 /\ overlapLength < ov)
    THEN [sentences |-> overlapSentences, length |-> overlapLength]
    ELSE LET s == Trim(currentSentences[i]) IN
         IF s # <<>>
         THEN OverlapLoop(currentSentences, i - 1, ov,
                          <<s>> \o overlapSentences, overlapLength + StrLen(s))
         ELSE OverlapLoop(currentSentences, i - 1, ov,
                          overlapSentences, overlapLength)

RECURSIVE JoinKuten(_)
JoinKuten(ss) ==
    IF ss = <<>> THEN <<>>
    ELSE IF Len(ss) = 1 THEN Head(ss)
         ELSE Head(ss) \o <<".">> \o JoinKuten(Tail(ss))

OverlapSeed(currentChunk, ov) ==
    LET currentSentences == FilterNonBlank(SplitPlain(currentChunk))
        o == OverlapLoop(currentSentences, Len(currentSentences), ov, <<>>, 0)
    IN  [chunk  |-> JoinKuten(o.sentences)
                    \o (IF Len(o.sentences) > 0 THEN <<".">> ELSE <<>>),
         length |-> o.length]

(***************************************************************************)
(* The loop of chunkText over the sentences.  st holds the local variables *)
(* chunks, currentChunk and currentLength; seeds and starts record, for    *)
(* each closed chunk, the text the next chunk was started with and the     *)
(* index of the first sentence appended to it.                             *)
(***************************************************************************)
\* a variant that assigns the sentence where the code appends it
AppendSentenceAssigning(st, sentence) ==
    [st EXCEPT !.currentChunk  = sentence,
               !.currentLength = st.currentLength + StrLen(sentence)]

AppendSentence(st, sentence) ==
    [st EXCEPT !.currentChunk  = IF st.currentChunk # <<>>
                                 THEN st.currentChunk \o sentence
                                 ELSE sentence,
               !.currentLength = st.currentLength + StrLen(sentence)]

CloseChunk(st, k, ov) ==
    LET seed == OverlapSeed(st.currentChunk, ov) IN
    [st EXCEPT !.chunks        = Append(st.chunks, Trim(st.currentChunk)),
               !.currentChunk  = seed.chunk,
               !.currentLength = seed.length,
               !.seeds         = Append(st.seeds, seed.chunk),
               !.starts        = Append(st.starts, k)]

\* a variant of the loop that closes the current chunk whatever it holds
RECURSIVE ChunkLoopClosingEmpty(_, _, _, _, _)
ChunkLoopClosingEmpty(sentences, k, size, ov, st) ==
    IF k > Len(sentences) THEN st
    ELSE LET sentence == sentences[k]
             closed == IF st.currentLength + StrLen(sentence) > size
                       THEN CloseChunk(st, k, ov)
                       ELSE st
         IN  ChunkLoopClosingEmpty(sentences, k + 1, size, ov,
                                   AppendSentence(closed, sentence))

RECURSIVE ChunkLoop(_, _, _, _, _)
ChunkLoop(sentences, k, size, ov, st) ==
    IF k > Len(sentences) THEN st
    ELSE LET sentence == sentences[k]
             closed == IF st.currentLength + StrLen(sentence) > size
                          /\ st.currentChunk # <<>>
                       THEN CloseChunk(st, k, ov)
                       ELSE st
         IN  ChunkLoop(sentences, k + 1, size, ov, AppendSentence(closed, sentence))

FinishChunks(st) ==
    IF Trim(st.currentChunk) # <<>>
    THEN [st EXCEPT !.chunks = Append(st.chunks, Trim(st.currentChunk))]
    ELSE st

ChunkRun(s, size, ov) ==
    LET sentences == splitIntoSentences(s)
        st == FinishChunks(ChunkLoop(sentences, 1, size, ov,
                  [chunks |-> <<>>, currentChunk |-> <<>>, currentLength |-> 0,
                   seeds |-> <<>>, starts |-> <<>>]))
    IN  [sentences |-> sentences,
         produced  |-> st.chunks,
         seeds     |-> st.seeds,
         starts    |-> st.starts]

\* a variant without the fallback to the original text
ChunkResultNoFallback(produced, s) == produced

ChunkResult(produced, s) == IF Len(produced) > 0 THEN produced ELSE <<s>>

chunkText(s, size, ov) == ChunkResult(ChunkRun(s, size, ov).produced, s)

(***************************************************************************)
(* chunkText on every text over TypedChars of at most MaxText characters   *)
(***************************************************************************)
OutIdle == [called |-> FALSE, run |-> ChunkRun(<<>>, 1, 0), result |-> <<>>]

TypeChar(c) ==
    /\ ~out.called
    /\ Len(text) < MaxText
    /\ text' = Append(text, c)
    /\ UNCHANGED <<chunkSize, overlap, out>>
    /\ UNCHANGED <<searchVars, storeVars, cosineVars, messageVars>>

CallChunkText(size, ov) ==
    /\ ~out.called
    /\ chunkSize' = size
    /\ overlap' = ov
    /\ out' = [called |-> TRUE,
               run    |-> ChunkRun(text, size, ov),
               result |-> chunkText(text, size, ov)]
    /\ UNCHANGED text
    /\ UNCHANGED <<searchVars, storeVars, cosineVars, messageVars>>

ChunkNext ==
    \/ \E c \in TypedChars : TypeChar(c)
    \/ \E size \in 1..MaxChunkSize, ov \in 0..MaxOverlap : CallChunkText(size, ov)

(***************************************************************************)
(* Embeddings.  A stored embedding is the TEXT column of document_chunks:  *)
(* Null, or the JSON text of a vector.  Similarities are kept in           *)
(* thousandths, cut toward zero: 1.0 is SimScale, 0.01 is SimTolerance.    *)
(***************************************************************************)
Null == <<>>
JsonStringify(v) == <<v>>
JsonParse(j) == j[1]

SimTolerance == 10
SimScale == 100 * SimTolerance
maxChunksPerDocument == 2
CandidateFactor == 3

RECURSIVE SqrtBetween(_, _, _)
SqrtBetween(n, lo, hi) ==
    \* the largest r in lo..hi with r * r <= n
    IF lo >= hi THEN lo
    ELSE LET mid == (lo + hi + 1) \div 2 IN
         IF mid * mid <= n THEN SqrtBetween(n, mid, hi)
         ELSE SqrtBetween(n, lo, mid - 1)

RECURSIVE DotFrom(_, _, _)
DotFrom(a, b, i) ==
    IF i > Len(a) THEN 0 ELSE a[i] * b[i] + DotFrom(a, b, i + 1)

Quotient(dotProduct, normA, normB) ==
    \* dotProduct / (sqrt(normA) * sqrt(normB)), in thousandths
    LET mag == SqrtBetween((SimScale * SimScale * dotProduct * dotProduct)
                               \div (normA * normB), 0, 2 * SimScale)
    IN  IF dotProduct < 0 THEN 0 - mag ELSE mag

\* a variant without the length test, over the components both vectors have
cosineSimilarityOverPrefix(vecA, vecB) ==
    LET n == IF Len(vecA) < Len(vecB) THEN Len(vecA) ELSE Len(vecB)
        a == SubSeq(vecA, 1, n)
        b == SubSeq(vecB, 1, n)
        dotProduct == DotFrom(a, b, 1)
        normA == DotFrom(a, a, 1)
        normB == DotFrom(b, b, 1)
    IN  IF normA = 0 \/ normB = 0 THEN 0
        ELSE Quotient(dotProduct, normA, normB)

cosineSimilarity(vecA, vecB) ==
    IF Len(vecA) # Len(vecB) THEN 0
    ELSE LET dotProduct == DotFrom(vecA, vecB, 1)
             normA == DotFrom(vecA, vecA, 1)
             normB == DotFrom(vecB, vecB, 1)
         IN  IF normA = 0 \/ normB = 0 THEN 0
             ELSE Quotient(dotProduct, normA, normB)

(***************************************************************************)
(* Scoring: the rows with an embedding, each with its similarity to the    *)
(* query embedding, in the order of the scan.                              *)
(***************************************************************************)
\* if (!chunk.embedding) return null: Null stands for the two values of the
\* column the test takes for absent, NULL and the empty text
HasEmbedding(row) == row.embedding # Null

\* a variant that scores a row without embedding 0 and keeps it
RECURSIVE ScoreRowsKeepingNull(_, _)
ScoreRowsKeepingNull(rows, queryEmbedding) ==
    IF rows = <<>> THEN <<>>
    ELSE LET row == Head(rows) IN
         <<[chunkId    |-> row.chunkId,
            documentId |-> row.documentId,
            chunkIndex |-> row.chunkIndex,
            similarity |-> IF HasEmbedding(row)
                           THEN cosineSimilarity(queryEmbedding,
                                                 JsonParse(row.embedding))
                           ELSE 0]>>
         \o ScoreRowsKeepingNull(Tail(rows), queryEmbedding)

RECURSIVE ScoreRows(_, _)
ScoreRows(rows, queryEmbedding) ==
    IF rows = <<>> THEN <<>>
    ELSE LET row == Head(rows)
             rest == ScoreRows(Tail(rows), queryEmbedding)
         IN  IF ~HasEmbedding(row) THEN rest
             ELSE <<[chunkId    |-> row.chunkId,
                     documentId |-> row.documentId,
                     chunkIndex |-> row.chunkIndex,
                     similarity |-> cosineSimilarity(queryEmbedding,
                                                     JsonParse(row.embedding))]>>
                  \o rest

Abs(x) == IF x < 0 THEN 0 - x ELSE x

\* a variant that orders by similarity alone
CompareBySimilarity(a, b) == b.similarity - a.similarity

\* the comparator of the sort: negative when a is ordered before b
Compare(a, b) ==
    IF Abs(a.similarity - b.similarity) > SimTolerance
    THEN b.similarity - a.similarity
    ELSE IF a.documentId = b.documentId
         THEN a.chunkIndex - b.chunkIndex
         ELSE b.similarity - a.similarity

(***************************************************************************)
(* Array.prototype.sort as the runtime of the routes (V8) computes it for  *)
(* an array of fewer than 64 elements: the leading run is found (and       *)
(* reversed when it descends), then every later element is put in place by *)
(* a binary insertion.  With a comparator that is no consistent ordering   *)
(* the result is the one these comparisons give.                           *)
(***************************************************************************)
RECURSIVE RunLength(_, _, _)
RunLength(arr, idx, isDescending) ==
    \* idx: the first element not yet known to continue the run
    IF idx > Len(arr) THEN Len(arr)
    ELSE LET order == Compare(arr[idx], arr[idx - 1]) IN
         IF (isDescending /\ order >= 0) \/ (~isDescending /\ order < 0)
         THEN idx - 1
         ELSE RunLength(arr, idx + 1, isDescending)

Reverse(arr) == [i \in 1..Len(arr) |-> arr[Len(arr) + 1 - i]]

RECURSIVE InsertionPoint(_, _, _, _)
InsertionPoint(arr, pivot, left, right) ==
    \* positions are 0-based, as in the runtime
    IF left >= right THEN left
    ELSE LET mid == left + ((right - left) \div 2) IN
         IF Compare(pivot, arr[mid + 1]) < 0
         THEN InsertionPoint(arr, pivot, left, mid)
         ELSE InsertionPoint(arr, pivot, mid + 1, right)

RECURSIVE BinaryInsertionSort(_, _)
BinaryInsertionSort(arr, start) ==
    \* start: the 0-based position of the next element to insert
    IF start >= Len(arr) THEN arr
    ELSE LET pivot == arr[start + 1]
             left == InsertionPoint(arr, pivot, 0, start)
             placed == SubSeq(arr, 1, left) \o <<pivot>>
                       \o SubSeq(arr, left + 1, start)
                       \o SubSeq(arr, start + 2, Len(arr))
         IN  BinaryInsertionSort(placed, start + 1)

SortChunks(arr) ==
    IF Len(arr) < 2 THEN arr
    ELSE LET isDescending == Compare(arr[2], arr[1]) < 0
             run == RunLength(arr, 3, isDescending)
             made == IF isDescending
                     THEN Reverse(SubSeq(arr, 1, run)) \o SubSeq(arr, run + 1, Len(arr))
                     ELSE arr
         IN  BinaryInsertionSort(made, run)

(***************************************************************************)
(* The diversity selection of the search route                             *)
(***************************************************************************)
Min(a, b) == IF a <= b THEN a ELSE b

CountOf(documentChunkCount, documentId) ==
    IF documentId \in DOMAIN documentChunkCount
    THEN documentChunkCount[documentId] ELSE 0

SetCount(documentChunkCount, documentId, n) ==
    [d \in DOMAIN documentChunkCount \cup {documentId} |->
        IF d = documentId THEN n ELSE documentChunkCount[d]]

\* a variant that admits under the cap only
Pass1AdmitUnderCap(currentCount, nSelected, lim) ==
    currentCount < maxChunksPerDocument

Pass1Admit(currentCount, nSelected, lim) ==
    currentCount < maxChunksPerDocument \/ nSelected < lim

RECURSIVE Pass1(_, _, _, _)
Pass1(candidateChunks, k, lim, sel) ==
    IF k > Len(candidateChunks) THEN sel
    ELSE LET chunk == candidateChunks[k]
             currentCount == CountOf(sel.documentChunkCount, chunk.documentId)
         IN  IF Pass1Admit(currentCount, Len(sel.selectedChunks), lim)
             THEN LET next == [selectedChunks |-> Append(sel.selectedChunks, chunk),
                               documentChunkCount |->
                                   SetCount(sel.documentChunkCount,
                                            chunk.documentId, currentCount + 1)]
                  IN  IF Len(next.selectedChunks) >= lim THEN next
                      ELSE Pass1(candidateChunks, k + 1, lim, next)
             ELSE Pass1(candidateChunks, k + 1, lim, sel)

RECURSIVE Pass2(_, _, _, _)
Pass2(chunksWithSimilarity, k, lim, sel) ==
    IF k > Len(chunksWithSimilarity) THEN sel
    ELSE LET chunk == chunksWithSimilarity[k]
             currentCount == CountOf(sel.documentChunkCount, chunk.documentId)
         IN  IF \E i \in 1..Len(sel.selectedChunks) :
                    sel.selectedChunks[i].chunkId = chunk.chunkId
             THEN Pass2(chunksWithSimilarity, k + 1, lim, sel)
             ELSE IF currentCount < maxChunksPerDocument
                  THEN LET next == [selectedChunks |-> Append(sel.selectedChunks, chunk),
                                    documentChunkCount |->
                                        SetCount(sel.documentChunkCount,
                                                 chunk.documentId, currentCount + 1)]
                       IN  IF Len(next.selectedChunks) >= lim THEN next
                           ELSE Pass2(chunksWithSimilarity, k + 1, lim, next)
                  ELSE Pass2(chunksWithSimilarity, k + 1, lim, sel)

SelectDiverse(chunksWithSimilarity, lim) ==
    LET candidateChunks ==
            SubSeq(chunksWithSimilarity, 1,
                   Min(lim * CandidateFactor, Len(chunksWithSimilarity)))
        first == Pass1(candidateChunks, 1, lim,
                       [selectedChunks |-> <<>>, documentChunkCount |-> <<>>])
    IN  IF Len(first.selectedChunks) < lim
        THEN Pass2(chunksWithSimilarity, 1, lim, first).selectedChunks
        ELSE first.selectedChunks

\* the search route without the selection: .slice(0, limit)
SelectTop(chunksWithSimilarity, lim) ==
    SubSeq(chunksWithSimilarity, 1, Min(lim, Len(chunksWithSimilarity)))

(***************************************************************************)
(* One search over a pool of rows.  The rows come in storage order; the    *)
(* chunks of one document carry chunkIndex 0, 1, ... in that order.        *)
(***************************************************************************)
MaxPool == 4
MaxLimit == 5
WidePool == 9
WideDocs == 3
WideLimit == 4

QueryEmbedding == <<1, 0>>
PoolDocuments == {1, 2}
PoolEmbeddings ==
    {Null, JsonStringify(<<5, 1>>), JsonStringify(<<7, 1>>), JsonStringify(<<10, 1>>)}
WideEmbeddings == {JsonStringify(<<10, 1>>)}

RowsOf(rows, documentId) ==
    {i \in 1..Len(rows) : rows[i].documentId = documentId}

AddChunk(documentId, embedding, maxPool) ==
    /\ ~found.called
    /\ Len(pool) < maxPool
    /\ pool' = Append(pool, [chunkId    |-> Len(pool) + 1,
                             documentId |-> documentId,
                             chunkIndex |-> Cardinality(RowsOf(pool, documentId)),
                             embedding  |-> embedding])
    /\ UNCHANGED <<limit, found>>
    /\ UNCHANGED <<chunkVars, storeVars, cosineVars, messageVars>>

Search(lim) ==
    /\ ~found.called
    /\ limit' = lim
    /\ LET chunksWithSimilarity == SortChunks(ScoreRows(pool, QueryEmbedding))
       IN  found' = [called  |-> TRUE,
                     sorted  |-> chunksWithSimilarity,
                     diverse |-> SelectDiverse(chunksWithSimilarity, lim),
                     top     |-> SelectTop(chunksWithSimilarity, lim)]
    /\ UNCHANGED pool
    /\ UNCHANGED <<chunkVars, storeVars, cosineVars, messageVars>>

SearchNext ==
    \/ \E d \in PoolDocuments, e \in PoolEmbeddings : AddChunk(d, e, MaxPool)
    \/ \E lim \in 1..MaxLimit : Search(lim)

WideNext ==
    \/ \E d \in 1..WideDocs, e \in WideEmbeddings : AddChunk(d, e, WidePool)
    \/ \E lim \in WideLimit..(WideLimit + 1) : Search(lim)

(***************************************************************************)
(* The document routes and the search route over the tables documents and  *)
(* document_chunks.  Every await of a handler ends a step: between two     *)
(* steps of one request the steps of the other requests may run.  The      *)
(* handlers open no transaction, so the database runs each statement by    *)
(* itself; it enforces the foreign key of document_chunks.documentId.      *)
(***************************************************************************)
MaxRequests == 3
FewRequests == 2
MaxDocuments == 2

Users == {"u1", "u2"}
StoreTexts == {<<"L", ".">>, <<"M", ".", "M", ".", "M", ".">>}
QueryText == <<"L">>

CreateChunkSize == 600
CreateOverlap == 150
UpdateChunkSize == 1000
UpdateOverlap == 200
DefaultLimit == 5

\* the vector the embedding provider answers for a text
ProviderVector(t) == <<Len(t), Cardinality({i \in 1..Len(t) : t[i] = "M"})>>

\* generateEmbedding(text) when the provider answers: response.data[0]?.embedding ?? []
generateEmbedding(t, outcome) ==
    IF outcome = "vector" THEN ProviderVector(t) ELSE <<>>

NoScan == [rows |-> <<>>, documents |-> {}, inFlight |-> {}, chunks |-> <<>>]

IdleRequest ==
    [kind |-> "none", pc |-> "idle", user |-> "", documentId |-> 0,
     content |-> <<>>, chunks |-> <<>>, i |-> 0, embedding |-> Null,
     status |-> 0, embeddingFailed |-> FALSE, scan |-> NoScan]

\* no request is between its arrival and its answer
Quiet == \A r \in 1..MaxRequests : requests[r].pc \in {"idle", "done"}

\* requests arrive in the order of their numbers; with alone, a request
\* arrives only when no other is running
Arrives(r, alone) ==
    /\ requests[r].pc = "idle"
    /\ IF r = 1 THEN TRUE ELSE requests[r - 1].pc # "idle"
    /\ alone => Quiet

Respond(req, status) == [req EXCEPT !.pc = "done", !.status = status]

DocumentsById(id) == {doc \in documents : doc.id = id}

\* a variant of the delete that removes no row
ChunksKept(rows, documentId) == rows

\* the rows left by a delete of the rows of one document (by the statement
\* of PUT, or by ON DELETE CASCADE)
ChunksNotOf(rows, documentId) ==
    LET Other(row) == row.documentId # documentId IN SelectSeq(rows, Other)

\* POST /api/documents up to the insert of the documents row
CreateDocument(r, user, content, alone) ==
    /\ Arrives(r, alone)
    /\ lastDocumentId < MaxDocuments
    /\ LET id == lastDocumentId + 1 IN
       /\ documents' = documents \cup {[id |-> id, userId |-> user, content |-> content]}
       /\ lastDocumentId' = id
       /\ contentsOf' = [contentsOf EXCEPT ![id] = @ \cup {content}]
       /\ requests' = [requests EXCEPT ![r] =
              [IdleRequest EXCEPT !.kind = "create", !.pc = "embed", !.user = user,
                                  !.documentId = id, !.content = content,
                                  !.chunks = chunkText(content, CreateChunkSize,
                                                       CreateOverlap)]]
    /\ UNCHANGED <<documentChunks, lastChunkId>>
    /\ UNCHANGED <<chunkVars, searchVars, cosineVars, messageVars>>

\* the loop of POST and of PUT: await generateEmbedding(chunk)
EmbedChunk(r, outcome) ==
    /\ requests[r].pc = "embed"
    /\ LET req == requests[r] IN
       requests' = [requests EXCEPT ![r] =
           IF outcome = "error"
           THEN [Respond(req, 500) EXCEPT !.embeddingFailed = TRUE]
           ELSE [req EXCEPT !.pc = "insert",
                            !.embedding = JsonStringify(
                                generateEmbedding(req.chunks[req.i + 1], outcome))]]
    /\ UNCHANGED <<documents, documentChunks, lastDocumentId, lastChunkId, contentsOf>>
    /\ UNCHANGED <<chunkVars, searchVars, cosineVars, messageVars>>

\* a variant that numbers the chunks of a document from 1
ChunkRowFromOne(req, id) ==
    [id         |-> id,
     documentId |-> req.documentId,
     content    |-> req.chunks[req.i + 1],
     embedding  |-> req.embedding,
     chunkIndex |-> req.i + 1]

\* a variant that stores the row without its embedding
ChunkRowWithoutEmbedding(req, id) ==
    [id         |-> id,
     documentId |-> req.documentId,
     content    |-> req.chunks[req.i + 1],
     embedding  |-> Null,
     chunkIndex |-> req.i]

\* the row of .values({ documentId, content: chunk, embedding, chunkIndex: i })
ChunkRow(req, id) ==
    [id         |-> id,
     documentId |-> req.documentId,
     content    |-> req.chunks[req.i + 1],
     embedding  |-> req.embedding,
     chunkIndex |-> req.i]

\* the loop of POST and of PUT: await db.insert(documentChunksTable)
InsertChunk(r) ==
    /\ requests[r].pc = "insert"
    /\ LET req == requests[r] IN
       IF DocumentsById(req.documentId) = {}
       THEN \* the foreign key rejects the row; the catch answers 500
            /\ requests' = [requests EXCEPT ![r] = Respond(req, 500)]
            /\ UNCHANGED <<documentChunks, lastChunkId>>
       ELSE /\ documentChunks' = Append(documentChunks,
                                        ChunkRow(req, lastChunkId + 1))
            /\ lastChunkId' = lastChunkId + 1
            /\ requests' = [requests EXCEPT ![r] =
                   IF req.i + 1 = Len(req.chunks)
                   THEN [Respond(req, 200) EXCEPT !.i = req.i + 1]
                   ELSE [req EXCEPT !.pc = "embed", !.i = req.i + 1]]
    /\ UNCHANGED <<documents, lastDocumentId, contentsOf>>
    /\ UNCHANGED <<chunkVars, searchVars, cosineVars, messageVars>>

\* the ownership check of PUT and of DELETE: 404, 403, or on to the write
\* a variant without the ownership test
CheckOwnerAnyUser(req, next) ==
    IF DocumentsById(req.documentId) = {} THEN Respond(req, 404)
    ELSE [req EXCEPT !.pc = next]

\* const [document] = await db.select(); 404 without a row, 403 when the row
\* is of another user
CheckOwner(req, next) ==
    LET existing == DocumentsById(req.documentId) IN
    IF existing = {} THEN Respond(req, 404)
    ELSE IF \E doc \in existing : doc.userId # req.user THEN Respond(req, 403)
    ELSE [req EXCEPT !.pc = next]

\* GET /api/documents/[id]: the document goes to its owner only
GetDocument(r, user, documentId, alone) ==
    /\ Arrives(r, alone)
    /\ LET req == CheckOwner([IdleRequest EXCEPT !.kind = "get", !.user = user,
                                                 !.documentId = documentId],
                             "getDocument")
       IN  requests' = [requests EXCEPT ![r] =
               IF req.pc = "getDocument"
               THEN Respond([req EXCEPT !.content =
                                (CHOOSE doc \in DocumentsById(documentId) : TRUE).content],
                            200)
               ELSE req]
    /\ UNCHANGED <<documents, documentChunks, lastDocumentId, lastChunkId, contentsOf>>
    /\ UNCHANGED <<chunkVars, searchVars, cosineVars, messageVars>>

\* PUT /api/documents/[id] up to the ownership check; a body without title
\* or content (the empty content here) is answered 400 before the document
\* is read
UpdateSelect(r, user, documentId, content, alone) ==
    /\ Arrives(r, alone)
    /\ LET req == [IdleRequest EXCEPT !.kind = "update", !.user = user,
                                      !.documentId = documentId,
                                      !.content = content]
       IN  requests' = [requests EXCEPT ![r] =
               IF content = <<>> THEN Respond(req, 400)
               ELSE CheckOwner(req, "updateDocument")]
    /\ UNCHANGED <<documents, documentChunks, lastDocumentId, lastChunkId, contentsOf>>
    /\ UNCHANGED <<chunkVars, searchVars, cosineVars, messageVars>>

\* PUT: await db.update(documentsTable)
UpdateDocument(r) ==
    /\ requests[r].pc = "updateDocument"
    /\ LET req == requests[r] IN
       /\ documents' = {IF doc.id = req.documentId
                        THEN [doc EXCEPT !.content = req.content]
                        ELSE doc : doc \in documents}
       /\ contentsOf' = IF DocumentsById(req.documentId) = {} THEN contentsOf
                        ELSE [contentsOf EXCEPT ![req.documentId] = @ \cup {req.content}]
    /\ requests' = [requests EXCEPT ![r].pc = "deleteChunks"]
    /\ UNCHANGED <<documentChunks, lastDocumentId, lastChunkId>>
    /\ UNCHANGED <<chunkVars, searchVars, cosineVars, messageVars>>

\* PUT: await db.delete(documentChunksTable), then chunkText(content, 1000, 200)
DeleteChunks(r) ==
    /\ requests[r].pc = "deleteChunks"
    /\ documentChunks' = ChunksNotOf(documentChunks, requests[r].documentId)
    /\ LET req == requests[r] IN
       requests' = [requests EXCEPT ![r] =
           [req EXCEPT !.pc = "embed",
                       !.chunks = chunkText(req.content, UpdateChunkSize,
                                            UpdateOverlap)]]
    /\ UNCHANGED <<documents, lastDocumentId, lastChunkId, contentsOf>>
    /\ UNCHANGED <<chunkVars, searchVars, cosineVars, messageVars>>

\* DELETE /api/documents/[id] up to the ownership check
DeleteSelect(r, user, documentId, alone) ==
    /\ Arrives(r, alone)
    /\ requests' = [requests EXCEPT ![r] =
           CheckOwner([IdleRequest EXCEPT !.kind = "delete", !.user = user,
                                          !.documentId = documentId],
                      "deleteDocument")]
    /\ UNCHANGED <<documents, documentChunks, lastDocumentId, lastChunkId, contentsOf>>
    /\ UNCHANGED <<chunkVars, searchVars, cosineVars, messageVars>>

\* DELETE: await db.delete(documentsTable); the chunks go by ON DELETE CASCADE
DeleteDocument(r) ==
    /\ requests[r].pc = "deleteDocument"
    /\ documents' = documents \ DocumentsById(requests[r].documentId)
    /\ documentChunks' = ChunksNotOf(documentChunks, requests[r].documentId)
    /\ requests' = [requests EXCEPT ![r] = Respond(@, 200)]
    /\ UNCHANGED <<lastDocumentId, lastChunkId, contentsOf>>
    /\ UNCHANGED <<chunkVars, searchVars, cosineVars, messageVars>>

\* POST /api/search/diversity up to the query embedding (a race with a timer)
EmbedQuery(r, user, outcome, alone) ==
    /\ Arrives(r, alone)
    /\ LET req == [IdleRequest EXCEPT !.kind = "search", !.user = user,
                                      !.content = QueryText]
       IN  requests' = [requests EXCEPT ![r] =
               IF outcome \in {"error", "timeout"}
               THEN [Respond(req, 500) EXCEPT !.embeddingFailed = TRUE]
               ELSE [req EXCEPT !.pc = "scan",
                                !.embedding = generateEmbedding(QueryText, outcome)]]
    /\ UNCHANGED <<documents, documentChunks, lastDocumentId, lastChunkId, contentsOf>>
    /\ UNCHANGED <<chunkVars, searchVars, cosineVars, messageVars>>

\* a variant of the scan without the where clause: the rows of every user
ScanChunksOfAnyUser(docs, chunkRows, user) ==
    LET Joined(row) == \E doc \in docs : doc.id = row.documentId
        rows == SelectSeq(chunkRows, Joined)
    IN  [k \in 1..Len(rows) |->
            [chunkId    |-> rows[k].id,
             documentId |-> rows[k].documentId,
             content    |-> rows[k].content,
             embedding  |-> rows[k].embedding,
             chunkIndex |-> rows[k].chunkIndex]]

\* the scan over given tables: the rows of chunkRows joined to the rows of
\* docs on documentId = id, where userId is the user
ScanChunksOf(docs, chunkRows, user) ==
    LET Owned(row) == \E doc \in docs :
                          doc.id = row.documentId /\ doc.userId = user
        rows == SelectSeq(chunkRows, Owned)
    IN  [k \in 1..Len(rows) |->
            [chunkId    |-> rows[k].id,
             documentId |-> rows[k].documentId,
             content    |-> rows[k].content,
             embedding  |-> rows[k].embedding,
             chunkIndex |-> rows[k].chunkIndex]]

\* the rows of document_chunks joined to the documents of the user
ScanChunks(user) == ScanChunksOf(documents, documentChunks, user)

\* the chunks the route answers from the scanned rows
RankChunks(allChunks, queryEmbedding) ==
    SelectDiverse(SortChunks(ScoreRows(allChunks, queryEmbedding)), DefaultLimit)

\* history: the writes that have started and not yet answered
InFlight ==
    {[kind |-> requests[q].kind, documentId |-> requests[q].documentId] :
        q \in {p \in 1..MaxRequests : requests[p].pc \notin {"idle", "done"}}}

\* a variant that answers "not found" when no chunk was selected
SearchStatusNotFoundWhenEmpty(selectedChunks) ==
    IF selectedChunks = <<>> THEN 404 ELSE 200

\* return NextResponse.json({ chunks: selectedChunks }): 200, whatever the list
SearchStatus(selectedChunks) == 200

\* POST /api/search/diversity from the chunk scan to the answer
ScanAndRank(r) ==
    /\ requests[r].pc = "scan"
    /\ LET req == requests[r]
           allChunks == ScanChunks(req.user)
           selectedChunks == RankChunks(allChunks, req.embedding)
       IN  requests' = [requests EXCEPT ![r] =
               [Respond(req, SearchStatus(selectedChunks)) EXCEPT !.scan =
                   [rows      |-> allChunks,
                    documents |-> {doc \in documents : doc.userId = req.user},
                    inFlight  |-> InFlight,
                    chunks    |-> selectedChunks]]]
    /\ UNCHANGED <<documents, documentChunks, lastDocumentId, lastChunkId, contentsOf>>
    /\ UNCHANGED <<chunkVars, searchVars, cosineVars, messageVars>>

\* when the requests arrive: at any time, each only when no other is running,
\* or the second only once the first has been answered
Interleaved == [r \in 1..MaxRequests |-> FALSE]
OneByOne    == [r \in 1..MaxRequests |-> TRUE]
AfterFirst  == [r \in 1..MaxRequests |-> r = 2]

\* one step of one of the requests 1..n; request r arrives only when no other
\* is running where alone[r]; outcomes are the answers of the provider to
\* the embedding call for a chunk
StoreSteps(n, alone, outcomes) ==
    \/ \E r \in 1..n, user \in Users, content \in StoreTexts :
           CreateDocument(r, user, content, alone[r])
    \/ \E r \in 1..n, outcome \in outcomes : EmbedChunk(r, outcome)
    \/ \E r \in 1..n : InsertChunk(r)
    \/ \E r \in 1..n, user \in Users, documentId \in 1..MaxDocuments,
          content \in StoreTexts :
           UpdateSelect(r, user, documentId, content, alone[r])
    \/ \E r \in 1..n : UpdateDocument(r)
    \/ \E r \in 1..n : DeleteChunks(r)
    \/ \E r \in 1..n, user \in Users, documentId \in 1..MaxDocuments :
           DeleteSelect(r, user, documentId, alone[r])
    \/ \E r \in 1..n : DeleteDocument(r)
    \/ \E r \in 1..n, user \in Users,
          outcome \in {"vector", "empty", "error", "timeout"} :
           EmbedQuery(r, user, outcome, alone[r])
    \/ \E r \in 1..n : ScanAndRank(r)

\* MaxRequests requests, their steps interleaved
StoreNext == StoreSteps(MaxRequests, Interleaved, {"vector", "error"})

\* FewRequests requests, their steps interleaved
FewNext == StoreSteps(FewRequests, Interleaved, {"vector", "error"})

\* FewRequests requests one after the other; the provider may also answer a
\* chunk with a response without embedding
SequenceNext == StoreSteps(FewRequests, OneByOne, {"vector", "empty", "error"})

\* MaxRequests requests: the first is answered before the second arrives, the
\* steps of the others interleave
UpdatesNext == StoreSteps(MaxRequests, AfterFirst, {"vector", "error"})

\* FewRequests requests, their steps interleaved, among them reads of a
\* document and updates with a body that lacks its content
AccessNext ==
    \/ FewNext
    \/ \E r \in 1..FewRequests, user \in Users, documentId \in 1..MaxDocuments :
           GetDocument(r, user, documentId, FALSE)
    \/ \E r \in 1..FewRequests, user \in Users, documentId \in 1..MaxDocuments :
           UpdateSelect(r, user, documentId, <<>>, FALSE)

\* a search over pools whose embeddings have 0, 1, 2 and 3 components
RaggedEmbeddings ==
    {JsonStringify(<<>>), JsonStringify(<<3>>), JsonStringify(<<10, 1>>),
     JsonStringify(<<1, 2, 2>>)}

RaggedNext ==
    \/ \E d \in PoolDocuments, e \in RaggedEmbeddings : AddChunk(d, e, MaxPool)
    \/ \E lim \in 1..MaxLimit : Search(lim)

(***************************************************************************)
(* The arithmetic of cosineSimilarity.  A JavaScript number is an IEEE 754 *)
(* binary floating-point value: a NaN, an infinity, or a finite value with *)
(* a significand of fixed width, every operation rounding its exact result *)
(* to the nearest such value (ties to the even significand) and giving an  *)
(* infinity when that is beyond the largest finite value.  The format here *)
(* has SigBits bits of significand in place of 53 and FloatMax as largest  *)
(* finite value in place of 1.8e308; a finite value is kept as its count   *)
(* of units, FloatOne units making 1.                                      *)
(***************************************************************************)
SigBits == 4
FloatOne == 16
FloatMax == 120

NaN == [cls |-> "nan", n |-> 0]
Infinity(sign) == [cls |-> "inf", n |-> sign]
Finite(n) == [cls |-> "fin", n |-> n]
FloatZero == Finite(0)

Sign(x) == IF x < 0 THEN -1 ELSE 1

RECURSIVE Pow2(_)
Pow2(k) == IF k = 0 THEN 1 ELSE 2 * Pow2(k - 1)

\* the distance between neighbouring values at magnitude n
RECURSIVE Ulp(_)
Ulp(n) == IF n < Pow2(SigBits) THEN 1 ELSE 2 * Ulp(n \div 2)

\* the value next to the exact magnitude x, lo <= x <= lo + step, given how x
\* compares with the midpoint (cmp < 0: below, 0: on it, > 0: above)
Nearest(lo, step, cmp) ==
    IF cmp < 0 THEN lo
    ELSE IF cmp > 0 THEN lo + step
    ELSE IF (lo \div step) % 2 = 0 THEN lo ELSE lo + step

\* the rounded value of sign * num / den units (num >= 0, den > 0)
RoundRatio(sign, num, den) ==
    LET q == num \div den
        step == Ulp(q)
        lo == (q \div step) * step
        twice == 2 * num - (2 * lo + step) * den
        n == Nearest(lo, step, twice)
    IN  IF n > FloatMax THEN Infinity(sign) ELSE Finite(sign * n)

\* a * b
FMul(a, b) ==
    IF a.cls = "nan" \/ b.cls = "nan" THEN NaN
    ELSE IF a.cls = "inf" \/ b.cls = "inf"
         THEN IF a.n = 0 \/ b.n = 0 THEN NaN
              ELSE Infinity(Sign(a.n) * Sign(b.n))
         ELSE RoundRatio(Sign(a.n) * Sign(b.n), Abs(a.n) * Abs(b.n), FloatOne)

\* a + b
FAdd(a, b) ==
    IF a.cls = "nan" \/ b.cls = "nan" THEN NaN
    ELSE IF a.cls = "inf"
         THEN IF b.cls = "inf" /\ b.n # a.n THEN NaN ELSE a
         ELSE IF b.cls = "inf" THEN b
              ELSE RoundRatio(Sign(a.n + b.n), Abs(a.n + b.n), 1)

\* Math.sqrt(a)
FSqrt(a) ==
    IF a.cls = "nan" THEN NaN
    ELSE IF a.cls = "inf" THEN IF a.n > 0 THEN a ELSE NaN
         ELSE IF a.n < 0 THEN NaN
              ELSE LET square == a.n * FloatOne
                       root == SqrtBetween(square, 0, square)
                       step == Ulp(root)
                       lo == (root \div step) * step
                       mid2 == 2 * lo + step
                   IN  Finite(Nearest(lo, step, 4 * square - mid2 * mid2))

\* a / b
FDiv(a, b) ==
    IF a.cls = "nan" \/ b.cls = "nan" THEN NaN
    ELSE IF a.cls = "inf"
         THEN IF b.cls = "inf" THEN NaN ELSE Infinity(a.n * Sign(b.n))
         ELSE IF b.cls = "inf" THEN FloatZero
              ELSE IF b.n = 0
                   THEN IF a.n = 0 THEN NaN ELSE Infinity(Sign(a.n))
                   ELSE RoundRatio(Sign(a.n) * Sign(b.n),
                                   Abs(a.n) * FloatOne, Abs(b.n))

\* the number an integer component is
Number(x) == RoundRatio(Sign(x), Abs(x) * FloatOne, 1)

\* the loop over the components: dotProduct, normA and normB after
\* components i..Len(vecA), starting from sums
RECURSIVE SumLoop(_, _, _, _)
SumLoop(vecA, vecB, i, sums) ==
    IF i > Len(vecA) THEN sums
    ELSE LET a == Number(vecA[i])
             b == Number(vecB[i])
         IN  SumLoop(vecA, vecB, i + 1,
                     [dotProduct |-> FAdd(sums.dotProduct, FMul(a, b)),
                      normA      |-> FAdd(sums.normA, FMul(a, a)),
                      normB      |-> FAdd(sums.normB, FMul(b, b))])

NoSums == [dotProduct |-> FloatZero, normA |-> FloatZero, normB |-> FloatZero]

\* a variant that takes the norm of vecA twice
DenominatorOfA(normA, normB) == FMul(FSqrt(normA), FSqrt(normA))

\* Math.sqrt(normA) * Math.sqrt(normB)
Denominator(normA, normB) == FMul(FSqrt(normA), FSqrt(normB))

\* the call in floating point: what it returns, and the divisor of its division
\* (NoDivision when it returned before dividing)
NoDivision == [cls |-> "none", n |-> 0]

cosineSimilarityNumber(vecA, vecB) ==
    IF Len(vecA) # Len(vecB)
    THEN [returned |-> FloatZero, divisor |-> NoDivision]
    ELSE LET sums == SumLoop(vecA, vecB, 1, NoSums)
             denominator == Denominator(sums.normA, sums.normB)
         IN  IF denominator = FloatZero
             THEN [returned |-> FloatZero, divisor |-> NoDivision]
             ELSE [returned |-> FDiv(sums.dotProduct, denominator),
                   divisor  |-> denominator]

(***************************************************************************)
(* cosineSimilarity on every pair of vectors of at most MaxDim components  *)
(***************************************************************************)
MaxDim == 3
\* Huge: the least integer whose square is beyond FloatMax
Huge == 3
Components == {-1, 0, 1, Huge}

CosineIdle ==
    [called |-> FALSE, value |-> 0, returned |-> FloatZero,
     divisor |-> NoDivision]

ExtendA(x) ==
    /\ ~cosine.called
    /\ Len(argA) < MaxDim
    /\ argA' = Append(argA, x)
    /\ UNCHANGED <<argB, cosine>>
    /\ UNCHANGED <<chunkVars, searchVars, storeVars, messageVars>>

ExtendB(x) ==
    /\ ~cosine.called
    /\ Len(argB) < MaxDim
    /\ argB' = Append(argB, x)
    /\ UNCHANGED <<argA, cosine>>
    /\ UNCHANGED <<chunkVars, searchVars, storeVars, messageVars>>

CallCosineSimilarity ==
    /\ ~cosine.called
    /\ LET call == cosineSimilarityNumber(argA, argB) IN
           cosine' = [called   |-> TRUE,
                      value    |-> cosineSimilarity(argA, argB),
                      returned |-> call.returned,
                      divisor  |-> call.divisor]
    /\ UNCHANGED <<argA, argB>>
    /\ UNCHANGED <<chunkVars, searchVars, storeVars, messageVars>>

CosineNext ==
    \/ \E x \in Components : ExtendA(x)
    \/ \E x \in Components : ExtendB(x)
    \/ CallCosineSimilarity

(***************************************************************************)
(* The message POST of a thread and its event stream                       *)
(***************************************************************************)
MaxPosts  == 2
MaxDeltas == 2

\* the userId of the row of threadsTable the requests name
ThreadOwner == "u1"

\* the message of a request body: absent, or a question
Messages == {<<>>, <<"a">>}

\* "R" stands for the heading of a reference line and its colon
ReferenceLine == <<"|", "|", "R", "a">>

\* chunk.choices[0]?.delta?.content of one chunk of the provider's stream
Deltas == {<<>>, <<"a">>, <<"_">>, ReferenceLine}

\* the index of the last character of the line that starts at index m
RECURSIVE LineEnd(_, _)
LineEnd(s, m) ==
    IF m < Len(s) /\ s[m + 1] # "|" THEN LineEnd(s, m + 1) ELSE m

\* the index of the first character at or after k that is no whitespace
RECURSIVE SkipWhitespace(_, _)
SkipWhitespace(s, k) ==
    IF k <= Len(s) /\ s[k] \in Whitespace THEN SkipWhitespace(s, k + 1) ELSE k

\* the length of the match of referencePattern at the head of s, 0 for none:
\* two newlines, the heading, \s* (greedy), then [^\n]+
ReferenceMatch(s) ==
    IF Len(s) < 4 \/ SubSeq(s, 1, 3) # <<"|", "|", "R">> THEN 0
    ELSE LET k == SkipWhitespace(s, 4)
             starts == {m \in 4..Len(s) : m <= k /\ s[m] # "|"}
         IN  IF starts = {} THEN 0
             ELSE LineEnd(s, CHOOSE m \in starts : \A o \in starts : o <= m)

\* assistantContent.replace(referencePattern, '')
RECURSIVE RemoveReferences(_)
RemoveReferences(s) ==
    IF s = <<>> THEN <<>>
    ELSE LET n == ReferenceMatch(s)
         IN  IF n > 0 THEN RemoveReferences(SubSeq(s, n + 1, Len(s)))
             ELSE <<Head(s)>> \o RemoveReferences(Tail(s))

IdlePost ==
    [pc |-> "idle", status |-> 0, assistantContent |-> <<>>, deltas |-> 0,
     events |-> <<>>, closed |-> FALSE,
     read |-> 0, accumulatedContent |-> <<>>, shown |-> <<>>, reader |-> "idle"]

Event(type, content) == [type |-> type, content |-> content]

MessageRow(p, role, content) == [messageId |-> <<p, role>>, role |-> role, content |-> content]

\* the catch block of start: the error event, then close
CatchStream(post) ==
    [post EXCEPT !.events = Append(post.events, Event("error", <<>>)),
                 !.closed = TRUE,
                 !.pc = "closed"]

\* POST up to the return of the Response: the checks, the insert of the user
\* message, and start() up to its first await
PostMessage(p, user, message, inserted) ==
    /\ posts[p].pc = "idle"
    /\ IF message = <<>>
       THEN /\ posts' = [posts EXCEPT ![p].pc = "answered", ![p].status = 400]
            /\ UNCHANGED messagesTable
       ELSE IF user # ThreadOwner
       THEN /\ posts' = [posts EXCEPT ![p].pc = "answered", ![p].status = 404]
            /\ UNCHANGED messagesTable
       ELSE IF ~inserted
       THEN /\ posts' = [posts EXCEPT ![p].pc = "answered", ![p].status = 500]
            /\ UNCHANGED messagesTable
       ELSE /\ messagesTable' = Append(messagesTable, MessageRow(p, "user", message))
            /\ posts' = [posts EXCEPT ![p].pc = "create", ![p].status = 200,
                                      ![p].reader = "reading"]
    /\ UNCHANGED <<chunkVars, searchVars, storeVars, cosineVars>>

\* await openai.chat.completions.create(requestOptions)
StreamCreate(p, created) ==
    /\ posts[p].pc = "create"
    /\ posts' = [posts EXCEPT ![p] =
           IF created THEN [posts[p] EXCEPT !.pc = "iterate"] ELSE CatchStream(posts[p])]
    /\ UNCHANGED messagesTable
    /\ UNCHANGED <<chunkVars, searchVars, storeVars, cosineVars>>

\* one turn of the for await loop: a chunk event for a non-empty content
StreamChunk(p, content) ==
    /\ posts[p].pc = "iterate"
    /\ posts[p].deltas < MaxDeltas
    /\ LET post == posts[p] IN
       posts' = [posts EXCEPT ![p] =
           IF content = <<>>
           THEN [post EXCEPT !.deltas = post.deltas + 1]
           ELSE [post EXCEPT !.deltas = post.deltas + 1,
                             !.assistantContent = post.assistantContent \o content,
                             !.events = Append(post.events, Event("chunk", content))]]
    /\ UNCHANGED messagesTable
    /\ UNCHANGED <<chunkVars, searchVars, storeVars, cosineVars>>

\* the provider's stream throws in the middle
StreamBreaks(p) ==
    /\ posts[p].pc = "iterate"
    /\ posts' = [posts EXCEPT ![p] = CatchStream(posts[p])]
    /\ UNCHANGED messagesTable
    /\ UNCHANGED <<chunkVars, searchVars, storeVars, cosineVars>>

\* the provider's stream ends: the reference lines are removed, the rest trimmed
StreamEnds(p) ==
    /\ posts[p].pc = "iterate"
    /\ posts' = [posts EXCEPT ![p].pc = "insert",
                              ![p].assistantContent =
                                  Trim(RemoveReferences(posts[p].assistantContent))]
    /\ UNCHANGED messagesTable
    /\ UNCHANGED <<chunkVars, searchVars, storeVars, cosineVars>>

\* await db.insert(messagesTable) of the assistant message
InsertAssistantMessage(p, inserted) ==
    /\ posts[p].pc = "insert"
    /\ IF inserted
       THEN /\ messagesTable' = Append(messagesTable,
                                       MessageRow(p, "assistant", posts[p].assistantContent))
            /\ posts' = [posts EXCEPT ![p].pc = "update"]
       ELSE /\ posts' = [posts EXCEPT ![p] = CatchStream(posts[p])]
            /\ UNCHANGED messagesTable
    /\ UNCHANGED <<chunkVars, searchVars, storeVars, cosineVars>>

\* await db.update(threadsTable), then the done event and close
UpdateThread(p, updated) ==
    /\ posts[p].pc = "update"
    /\ LET post == posts[p] IN
       posts' = [posts EXCEPT ![p] =
           IF updated
           THEN [post EXCEPT !.events = Append(post.events,
                                               Event("done", post.assistantContent)),
                             !.closed = TRUE,
                             !.pc = "closed"]
           ELSE CatchStream(post)]
    /\ UNCHANGED messagesTable
    /\ UNCHANGED <<chunkVars, searchVars, storeVars, cosineVars>>

\* sendMessage: the reader takes the next event of the response
ReadEvent(p) ==
    /\ posts[p].reader = "reading"
    /\ posts[p].read < Len(posts[p].events)
    /\ LET post == posts[p]
           data == post.events[post.read + 1]
       IN  posts' = [posts EXCEPT ![p] =
               IF data.type = "chunk"
               THEN [post EXCEPT !.read = post.read + 1,
                                 !.accumulatedContent = post.accumulatedContent \o data.content,
                                 !.shown = post.accumulatedContent \o data.content]
               ELSE IF data.type = "done"
               THEN [post EXCEPT !.read = post.read + 1,
                                 !.shown = data.content,
                                 !.reader = "done"]
               ELSE [post EXCEPT !.read = post.read + 1,
                                 !.reader = "failed"]]
    /\ UNCHANGED messagesTable
    /\ UNCHANGED <<chunkVars, searchVars, storeVars, cosineVars>>

StreamNext ==
    \/ \E p \in 1..MaxPosts, user \in Users, message \in Messages, inserted \in BOOLEAN :
           PostMessage(p, user, message, inserted)
    \/ \E p \in 1..MaxPosts, created \in BOOLEAN : StreamCreate(p, created)
    \/ \E p \in 1..MaxPosts, content \in Deltas : StreamChunk(p, content)
    \/ \E p \in 1..MaxPosts : StreamBreaks(p)
    \/ \E p \in 1..MaxPosts : StreamEnds(p)
    \/ \E p \in 1..MaxPosts, inserted \in BOOLEAN : InsertAssistantMessage(p, inserted)
    \/ \E p \in 1..MaxPosts, updated \in BOOLEAN : UpdateThread(p, updated)
    \/ \E p \in 1..MaxPosts : ReadEvent(p)

FoundIdle == [called |-> FALSE, sorted |-> <<>>, diverse |-> <<>>, top |-> <<>>]

Init ==
    /\ text = <<>>
    /\ chunkSize = 0
    /\ overlap = 0
    /\ out = OutIdle
    /\ pool = <<>>
    /\ limit = 0
    /\ found = FoundIdle
    /\ documents = {}
    /\ documentChunks = <<>>
    /\ lastDocumentId = 0
    /\ lastChunkId = 0
    /\ requests = [r \in 1..MaxRequests |-> IdleRequest]
    /\ contentsOf = [id \in 1..MaxDocuments |-> {}]
    /\ argA = <<>>
    /\ argB = <<>>
    /\ cosine = CosineIdle
    /\ messagesTable = <<>>
    /\ posts = [p \in 1..MaxPosts |-> IdlePost]

\* chunkText on every text over TypedChars of at most MaxText characters
SpecChunk == Init /\ [][ChunkNext]_vars

\* a search over every pool of at most MaxPool rows of the documents of PoolDocuments
SpecSearch == Init /\ [][SearchNext]_vars

\* a search over the larger pools of WideDocs documents
SpecSearchWide == Init /\ [][WideNext]_vars

\* cosineSimilarity on every pair of vectors over Components
SpecCosine == Init /\ [][CosineNext]_vars

\* a search over pools whose embeddings differ in length
SpecSearchRagged == Init /\ [][RaggedNext]_vars

\* MaxRequests requests of the document and search routes, interleaved
Spec == Init /\ [][StoreNext]_vars

\* FewRequests requests of the document and search routes, interleaved
SpecFew == Init /\ [][FewNext]_vars

\* FewRequests requests of the document and search routes, one at a time
SpecSequence == Init /\ [][SequenceNext]_vars

\* reads and writes of documents by their owners and by other users
SpecAccess == Init /\ [][AccessNext]_vars

\* MaxRequests requests, the second and the third interleaved after the first
SpecUpdates == Init /\ [][UpdatesNext]_vars

\* MaxPosts message POSTs on one thread, their streams and their readers, interleaved
SpecStream == Init /\ [][StreamNext]_vars

(***************************************************************************)
(* Properties of the search                                                *)
(***************************************************************************)
Embedded(rows) == {i \in 1..Len(rows) : HasEmbedding(rows[i])}

FromDocument(chunks, documentId) ==
    {i \in 1..Len(chunks) : chunks[i].documentId = documentId}

DistinctIds(chunks) ==
    \A i, j \in 1..Len(chunks) : i # j => chunks[i].chunkId # chunks[j].chunkId

NearTie(a, b) == Abs(a.similarity - b.similarity) <= SimTolerance

\* documents of the pool that contribute at least three embedded chunks
RichDocuments ==
    {d \in 1..WideDocs :
        Cardinality({i \in Embedded(pool) : pool[i].documentId = d}) >= 3}

\* C1: a search with limit >= 4 over a pool with at least 3 documents of at
\* least 3 embedded chunks each returns at most 2 chunks of any one document.
C1_DiversityCap ==
    (found.called /\ limit >= 4 /\ Cardinality(RichDocuments) >= 3)
        => \A d \in 1..WideDocs :
              Cardinality(FromDocument(found.diverse, d)) <= maxChunksPerDocument

\* C2: both search routes return exactly min(limit, number of rows with a
\* non-null embedding) chunks, and no chunkId twice.
C2_ResultCount ==
    found.called
        => /\ Len(found.diverse) = Min(limit, Cardinality(Embedded(pool)))
           /\ Len(found.top) = Min(limit, Cardinality(Embedded(pool)))
           /\ DistinctIds(found.diverse)
           /\ DistinctIds(found.top)

\* C2 witness: a search whose pool holds a row without embedding and more
\* embedded rows than the limit, and one whose pool is smaller than the limit
C2_Witness ==
    /\ found.called
    /\ Cardinality(Embedded(pool)) < Len(pool)
    /\ limit < Cardinality(Embedded(pool))
    /\ Len(found.diverse) = limit
    /\ limit >= 2

SingleNearTiedDocument(chunks) ==
    \A i, j \in 1..Len(chunks) :
        chunks[i].documentId = chunks[j].documentId /\ NearTie(chunks[i], chunks[j])

IsSubsequence(chunks, of) ==
    \* chunks holds elements of the list of, in the order of of
    \A i, j \in 1..Len(chunks) :
        i < j => \E m, n \in 1..Len(of) :
                    m < n /\ of[m] = chunks[i] /\ of[n] = chunks[j]

\* C4: of two returned chunks whose similarities differ by more than 0.01 the
\* one of higher similarity comes first, and the selection keeps the order of
\* the sorted list.
C4_ScoreOrder ==
    found.called
        => /\ \A i, j \in 1..Len(found.diverse) :
                 i < j => found.diverse[j].similarity - found.diverse[i].similarity
                             <= SimTolerance
           /\ IsSubsequence(found.diverse, found.sorted)

(***************************************************************************)
(* Properties of chunkText                                                 *)
(***************************************************************************)
Sentences == out.run.sentences

\* the sentences appended to chunk k: FirstPlaced(k) .. LastPlaced(k)
FirstPlaced(k) == IF k = 1 THEN 1 ELSE out.run.starts[k - 1]
LastPlaced(k) ==
    IF k = Len(out.run.produced) THEN Len(Sentences) ELSE out.run.starts[k] - 1
SeedOf(k) == IF k = 1 THEN <<>> ELSE out.run.seeds[k - 1]

\* C5: a chunk that holds no sentence longer than chunkSize is at most
\* chunkSize characters long (stated for the texts all of whose sentences
\* are at most chunkSize long).
C5_ChunkSizeBound ==
    (/\ out.called
     /\ Sentences # <<>>
     /\ \A i \in 1..Len(Sentences) : StrLen(Sentences[i]) <= chunkSize)
        => \A k \in 1..Len(out.result) : StrLen(out.result[k]) <= chunkSize

\* C6: no sentence is cut: every chunk is its overlap seed followed by whole
\* sentences, and the sentences after the seeds are, chunk after chunk, the
\* sentences of the text, each once and in order.  A text without any
\* sentence comes back as it is.
C6_NoSentenceCut ==
    out.called
        => /\ Sentences = <<>> => out.result = <<text>>
           /\ Sentences # <<>> =>
                 /\ out.result = out.run.produced
                 /\ Len(out.result) = Len(out.run.seeds) + 1
                 /\ \A k \in 1..Len(out.result) :
                       /\ FirstPlaced(k) <= LastPlaced(k)
                       /\ out.result[k] =
                             SeedOf(k) \o Concat(SubSeq(Sentences, FirstPlaced(k),
                                                        LastPlaced(k)))

\* C6 witness: several chunks, the later ones with an overlap seed, one of
\* them holding two sentences after its seed
C6_Witness ==
    /\ out.called
    /\ Len(out.result) >= 2
    /\ \A k \in 2..Len(out.result) : SeedOf(k) # <<>>
    /\ \E k \in 1..Len(out.result) : LastPlaced(k) > FirstPlaced(k)

HasWord(sentence) ==
    \E i \in 1..Len(sentence) : sentence[i] \notin Terminators \cup Whitespace

\* C7: with overlap > 0 every chunk after the first begins with the end of
\* the chunk before it, at least that chunk's last sentence (stated for the
\* texts whose sentences all hold a character besides terminators).
C7_OverlapSentence ==
    (/\ out.called /\ overlap > 0 /\ Len(out.run.produced) > 1
     /\ \A i \in 1..Len(Sentences) : HasWord(Sentences[i]))
        => \A k \in 2..Len(out.result) :
              LET before == out.result[k - 1]
                  last == Sentences[LastPlaced(k - 1)]
              IN  \E m \in Len(last)..Len(before) :
                     IsPrefix(SubSeq(before, Len(before) - m + 1, Len(before)),
                              out.result[k])

\* C8: a non-empty text gives at least one chunk, and when the loop produced
\* none the result is the text itself, alone.
C8_NeverEmpty ==
    out.called
        => /\ text # <<>> => Len(out.result) >= 1
           /\ out.run.produced = <<>> => out.result = <<text>>

\* C8 witness: a non-empty text without any sentence
C8_Witness ==
    /\ out.called
    /\ text # <<>>
    /\ out.run.produced = <<>>
    /\ out.result = <<text>>


(***************************************************************************)
(* Properties of the document writes                                       *)
(***************************************************************************)
RECURSIVE ContentsOfRows(_, _)
ContentsOfRows(rows, documentId) ==
    \* the chunk texts of one document among rows, in the order of the rows
    IF rows = <<>> THEN <<>>
    ELSE IF Head(rows).documentId = documentId
         THEN <<Head(rows).content>> \o ContentsOfRows(Tail(rows), documentId)
         ELSE ContentsOfRows(Tail(rows), documentId)

\* the chunk sets a complete write of content leaves: by POST, by PUT
WholeChunkSets(content) ==
    {chunkText(content, CreateChunkSize, CreateOverlap),
     chunkText(content, UpdateChunkSize, UpdateOverlap)}

IsStrictPrefix(p, s) == Len(p) < Len(s) /\ SubSeq(s, 1, Len(p)) = p

PartlyChunked(doc) ==
    \E whole \in WholeChunkSets(doc.content) :
        IsStrictPrefix(ContentsOfRows(documentChunks, doc.id), whole)

\* C9: once a create or an update has ended on a failed embedding call and
\* no request is running, no document of the store has an empty chunk set
\* or a strict prefix of the chunks of its stored content.
C9_FailedWriteAborted ==
    (/\ Quiet
     /\ \E r \in 1..MaxRequests :
            /\ requests[r].kind \in {"create", "update"}
            /\ requests[r].embeddingFailed)
    => \A doc \in documents : ~PartlyChunked(doc)

\* C10: a search whose chunk scan ran while an update of a document was
\* between its ownership check and its answer saw, for that document, the
\* whole chunk set of a content the document has held (no creation of the
\* document was running, and no embedding call of any request has failed).
C10_SearchSeesWholeChunkSet ==
    \A r \in 1..MaxRequests :
        (/\ requests[r].kind = "search"
         /\ requests[r].status = 200
         /\ \A q \in 1..MaxRequests : ~requests[q].embeddingFailed)
        => \A doc \in requests[r].scan.documents :
               (/\ [kind |-> "update", documentId |-> doc.id]
                       \in requests[r].scan.inFlight
                /\ [kind |-> "create", documentId |-> doc.id]
                       \notin requests[r].scan.inFlight)
               => ContentsOfRows(requests[r].scan.rows, doc.id)
                      \in UNION {WholeChunkSets(content) :
                                     content \in contentsOf[doc.id]}

(***************************************************************************)
(* Properties of the stored chunks                                         *)
(***************************************************************************)
\* the rows of one document, in storage order
StoredChunksOf(documentId) ==
    LET Of(row) == row.documentId = documentId IN SelectSeq(documentChunks, Of)

\* every create, update and delete that has arrived was answered 200
WritesSucceeded ==
    \A r \in 1..MaxRequests :
        requests[r].kind \in {"create", "update", "delete"} => requests[r].status = 200

\* C11: when the requests ran one after the other and every create, update
\* and delete was answered 200, the rows of each document carry, in storage
\* order, the chunkIndex values 0, 1, ..., N-1.
C11_DenseChunkIndex ==
    (Quiet /\ WritesSucceeded)
    => \A d \in 1..MaxDocuments :
           \A k \in 1..Len(StoredChunksOf(d)) : StoredChunksOf(d)[k].chunkIndex = k - 1

C11_Witness ==
    /\ Quiet
    /\ WritesSucceeded
    /\ \E r \in 1..MaxRequests : requests[r].kind = "update" /\ requests[r].status = 200
    /\ \E d \in 1..MaxDocuments : Len(StoredChunksOf(d)) >= 2

\* the rows a complete PUT of content leaves, without their ids
UpdatedChunks(content) ==
    LET chunks == chunkText(content, UpdateChunkSize, UpdateOverlap)
    IN  [k \in 1..Len(chunks) |->
            [content    |-> chunks[k],
             embedding  |-> JsonStringify(ProviderVector(chunks[k])),
             chunkIndex |-> k - 1]]

\* the rows stored for a document, without their ids
StoredOf(documentId) ==
    LET rows == StoredChunksOf(documentId)
    IN  [k \in 1..Len(rows) |->
            [content    |-> rows[k].content,
             embedding  |-> rows[k].embedding,
             chunkIndex |-> rows[k].chunkIndex]]

\* C12: in the step in which a PUT is answered 200, the rows stored for its
\* document are exactly the chunks of chunkText on the new content, chunk i
\* at chunkIndex i with the embedding of its own text, and nothing else.
C12_UpdateReplacesChunks ==
    [][\A r \in 1..MaxRequests :
          (/\ requests[r].kind = "update"
           /\ requests[r].pc # "done"
           /\ requests'[r].status = 200)
          => StoredOf(requests[r].documentId)' = UpdatedChunks(requests[r].content)]_vars

(***************************************************************************)
(* Properties of the search requests                                       *)
(***************************************************************************)
\* the query embedding was not obtained: the provider threw or the timer won
\* (embeddingFailed), or the provider's response carried no embedding
QueryEmbeddingFailed(req) ==
    req.kind = "search" /\ (req.embeddingFailed \/ req.embedding = <<>>)

\* C13: a search whose query embedding was not obtained (provider error,
\* response without an embedding, timeout) is answered with an error, and
\* not with a chunk list.
C13_QueryFailureIsError ==
    \A r \in 1..MaxRequests :
        (requests[r].pc = "done" /\ QueryEmbeddingFailed(requests[r]))
        => requests[r].status # 200

(***************************************************************************)
(* Properties of the scoring                                               *)
(***************************************************************************)
ChunkIds(chunks) == {chunks[k].chunkId : k \in 1..Len(chunks)}

\* C14: a row of the pool without embedding (NULL or the empty text) is not
\* scored: it is in neither the sorted list nor the result of either route.
C14_NoEmbeddingNeverReturned ==
    found.called
    => \A i \in 1..Len(pool) :
           ~HasEmbedding(pool[i])
           => pool[i].chunkId \notin
                  (ChunkIds(found.sorted) \cup ChunkIds(found.diverse)
                       \cup ChunkIds(found.top))

C14_Witness ==
    /\ found.called
    /\ \E i \in 1..Len(pool) : ~HasEmbedding(pool[i])
    /\ found.diverse # <<>>
    /\ limit > Len(found.diverse)

\* the documents of the other users
DocumentsOfOthers(user) == {doc \in documents : doc.userId # user}

\* the rows of chunkRows that belong to none of the documents docs
ChunksOutside(chunkRows, docs) ==
    LET Outside(row) == \A doc \in docs : doc.id # row.documentId
    IN  SelectSeq(chunkRows, Outside)

\* C15: in the step in which a search scans and answers, every chunk of the
\* answer belongs to a document of the requesting user, and the answer is
\* the one the same search gives on every store that lacks some documents
\* of other users together with their chunks.
C15_SearchSeesOwnDocumentsOnly ==
    [][\A r \in 1..MaxRequests :
          (requests[r].pc = "scan" /\ requests'[r].pc = "done")
          => LET user == requests[r].user
                 answer == requests'[r].scan.chunks
             IN  /\ \A k \in 1..Len(answer) :
                        \E doc \in documents :
                            doc.id = answer[k].documentId /\ doc.userId = user
                 /\ \A hidden \in SUBSET DocumentsOfOthers(user) :
                        RankChunks(ScanChunksOf(documents \ hidden,
                                                ChunksOutside(documentChunks, hidden),
                                                user),
                                   requests[r].embedding) = answer]_vars

\* a search answered chunks while a chunk of another user, older than one of
\* the answered chunks, was stored
C15_Witness ==
    \E r \in 1..MaxRequests :
        /\ requests[r].kind = "search"
        /\ requests[r].scan.chunks # <<>>
        /\ \E k \in 1..Len(documentChunks), j \in 1..Len(requests[r].scan.chunks) :
               /\ documentChunks[k].id < requests[r].scan.chunks[j].chunkId
               /\ \E doc \in documents : /\ doc.id = documentChunks[k].documentId
                                         /\ doc.userId # requests[r].user

\* the rows of the pool whose embedding has not the length of the query's
Mismatched(rows) ==
    {i \in 1..Len(rows) :
        /\ HasEmbedding(rows[i])
        /\ Len(JsonParse(rows[i].embedding)) # Len(QueryEmbedding)}

\* C16: a row whose embedding differs in length from the query embedding is
\* scored 0, and the search answers its ranked list of min(limit, number of
\* rows with an embedding) chunks.
C16_MismatchScoresZero ==
    found.called
    => /\ \A i \in Mismatched(pool) :
              \E k \in 1..Len(found.sorted) :
                  /\ found.sorted[k].chunkId = pool[i].chunkId
                  /\ found.sorted[k].similarity = 0
       /\ Len(found.diverse) = Min(limit, Cardinality(Embedded(pool)))
       /\ Len(found.top) = Min(limit, Cardinality(Embedded(pool)))

\* a search answered both a mismatched row and a row of the query's length
C16_Witness ==
    /\ found.called
    /\ \E i \in Mismatched(pool), j \in Embedded(pool) \ Mismatched(pool) :
           {pool[i].chunkId, pool[j].chunkId} \subseteq ChunkIds(found.diverse)
    /\ \E i \in Mismatched(pool) : Len(JsonParse(pool[i].embedding)) > 0

\* C17: a search whose query embedding call returned and whose scan found no
\* row with an embedding is answered 200 with the empty chunk list; a search
\* answered with an error carries status 500 and no chunk list.
C17_EmptyResultIsSuccess ==
    \A r \in 1..MaxRequests :
        (requests[r].kind = "search" /\ requests[r].pc = "done")
        => /\ requests[r].status \in {200, 500}
           /\ requests[r].embeddingFailed
                  => requests[r].status = 500 /\ requests[r].scan = NoScan
           /\ (~requests[r].embeddingFailed /\ Embedded(requests[r].scan.rows) = {})
                  => requests[r].status = 200 /\ requests[r].scan.chunks = <<>>

\* a search of a user who owns a document, but no chunk, was answered 200
C17_Witness ==
    \E r \in 1..MaxRequests :
        /\ requests[r].kind = "search"
        /\ requests[r].status = 200
        /\ requests[r].scan.documents # {}
        /\ requests[r].scan.rows = <<>>
        /\ requests[r].scan.chunks = <<>>
        /\ requests[r].embedding = QueryEmbedding

\* the texts generateEmbedding can give for a chunk: the JSON text of the
\* provider's vector, or of [] when the response carried none
EmbeddingTextsOf(content) ==
    {JsonStringify(generateEmbedding(content, outcome)) : outcome \in {"vector", "empty"}}

\* C18: every stored row carries a non-null embedding that an embedding call
\* on its own content gave, and a row is appended only by a request whose
\* embedding call for that chunk has returned, with what the call returned.
C18_EveryChunkEmbedded ==
    /\ [](\A k \in 1..Len(documentChunks) :
              /\ HasEmbedding(documentChunks[k])
              /\ documentChunks[k].embedding \in
                     EmbeddingTextsOf(documentChunks[k].content))
    /\ [][Len(documentChunks') > Len(documentChunks)
          => LET row == documentChunks'[Len(documentChunks')] IN
             \E r \in 1..MaxRequests :
                 /\ requests[r].pc = "insert"
                 /\ requests'[r].i = requests[r].i + 1
                 /\ row.content = requests[r].chunks[requests[r].i + 1]
                 /\ row.embedding = requests[r].embedding
                 /\ row.chunkIndex = requests[r].i]_vars

\* rows of a create and of an update are stored, one of them with the
\* embedding of a response that carried none
C18_Witness ==
    /\ \E r \in 1..MaxRequests : requests[r].kind = "create" /\ requests[r].status = 200
    /\ \E r \in 1..MaxRequests : requests[r].kind = "update" /\ requests[r].status = 200
    /\ \E k \in 1..Len(documentChunks) :
           documentChunks[k].embedding = JsonStringify(<<>>)
    /\ \E k \in 1..Len(documentChunks) :
           documentChunks[k].embedding = JsonStringify(ProviderVector(documentChunks[k].content))

\* C19: in every state of every interleaving, each stored chunk references
\* a document that is stored.
C19_NoOrphanChunk ==
    \A k \in 1..Len(documentChunks) :
        \E doc \in documents : doc.id = documentChunks[k].documentId

\* a document that had chunks was deleted while a write of it was running;
\* the write was refused its next insert
C19_Witness ==
    \E r \in 1..MaxRequests, q \in 1..MaxRequests :
        /\ requests[r].kind = "delete"
        /\ requests[r].status = 200
        /\ requests[q].kind \in {"create", "update"}
        /\ requests[q].documentId = requests[r].documentId
        /\ requests[q].i >= 1
        /\ requests[q].status = 500
        /\ ~requests[q].embeddingFailed

(***************************************************************************)
(* Properties of cosineSimilarity                                          *)
(***************************************************************************)
\* C20: cosineSimilarity returns 0 for two vectors of different lengths.
C20_MismatchedLengthsGiveZero ==
    (cosine.called /\ Len(argA) # Len(argB)) => cosine.value = 0

\* two vectors of different lengths whose first components have a positive
\* product were compared
C20_Witness ==
    /\ cosine.called
    /\ Len(argA) # Len(argB)
    /\ Len(argA) >= 1
    /\ Len(argB) >= 1
    /\ argA[1] * argB[1] > 0

ZeroNorm(v) == \A i \in 1..Len(v) : v[i] = 0

\* C21: for two vectors of equal length of which at least one has norm
\* exactly zero (two empty vectors included), cosineSimilarity returns 0, and
\* no call of cosineSimilarity divides by zero.
C21_ZeroNormGivesZero ==
    cosine.called =>
        /\ (Len(argA) = Len(argB) /\ (ZeroNorm(argA) \/ ZeroNorm(argB)))
               => cosine.returned = FloatZero
        /\ cosine.divisor # FloatZero

\* C22: cosineSimilarity is symmetric: the call on (a, b) returns what the
\* call on (b, a) returns, for all vectors a and b, of equal or of different
\* lengths.
C22_Symmetric ==
    cosine.called =>
        /\ cosine.returned = cosineSimilarityNumber(argB, argA).returned
        /\ cosine.value = cosineSimilarity(argB, argA)

\* two different vectors of equal length and non-zero norms, neither
\* orthogonal to the other, were compared
C22_Witness ==
    /\ cosine.called
    /\ Len(argA) = Len(argB)
    /\ argA # argB
    /\ ~ZeroNorm(argA)
    /\ ~ZeroNorm(argB)
    /\ cosine.returned.cls = "fin"
    /\ cosine.returned.n # 0

\* C23: for every non-zero vector v, cosineSimilarity(v, v) is 1.
C23_SelfSimilarityIsOne ==
    (cosine.called /\ argA = argB /\ ~ZeroNorm(argA))
        => cosine.returned = Finite(FloatOne)

(***************************************************************************)
(* Properties of the selection and of the comparator                       *)
(***************************************************************************)
\* what pass 1 of the selection leaves for the sorted list of the search
FirstPass ==
    Pass1(SubSeq(found.sorted, 1,
                 Min(limit * CandidateFactor, Len(found.sorted))),
          1, limit, [selectedChunks |-> <<>>, documentChunkCount |-> <<>>])

Scored == {found.sorted[i] : i \in 1..Len(found.sorted)}

\* C25: the comparator of the sort is a consistent ordering: over any three
\* scored candidates it is antisymmetric, and when it orders a before b and b
\* before c it does not order c before a.
C25_ComparatorConsistent ==
    found.called
        => \A a, b, c \in Scored :
              /\ Compare(a, b) < 0 => Compare(b, a) > 0
              /\ (Compare(a, b) < 0 /\ Compare(b, c) < 0) => ~(Compare(c, a) < 0)

(***************************************************************************)
(* Properties of the overlap seed and of the number of chunks              *)
(***************************************************************************)
\* the shortest suffix of list[1..i] \o taken whose length is at least ov,
\* read from the last sentence back (all of them when the total is smaller)
RECURSIVE ShortestSuffix(_, _, _, _)
ShortestSuffix(list, i, ov, taken) ==
    IF i < 1 \/ StrLen(Concat(taken)) >= ov THEN taken
    ELSE ShortestSuffix(list, i - 1, ov, <<list[i]>> \o taken)

\* the sentences that made up chunk k when every seed is such a suffix
RECURSIVE MadeUp(_)
MadeUp(k) ==
    LET placed == SubSeq(Sentences, FirstPlaced(k), LastPlaced(k)) IN
    IF k = 1 THEN placed
    ELSE LET before == MadeUp(k - 1) IN
         ShortestSuffix(before, Len(before), overlap, <<>>) \o placed

\* C26: when chunkText closes a chunk, the seed of the next chunk is the
\* shortest suffix of the sentences of the closed chunk whose accumulated
\* length is at least overlap (all of them if their total is smaller), in
\* their order; with overlap 0 the seed is empty and consecutive chunks share
\* no text.
C26_SeedIsShortestSuffix ==
    (out.called /\ Sentences # <<>>)
        => /\ \A k \in 1..Len(out.run.seeds) :
                 out.run.seeds[k]
                     = Concat(ShortestSuffix(MadeUp(k), Len(MadeUp(k)),
                                             overlap, <<>>))
           /\ overlap = 0 =>
                 \A k \in 1..Len(out.result) :
                     out.result[k] = Concat(SubSeq(Sentences, FirstPlaced(k),
                                                   LastPlaced(k)))

(***************************************************************************)
(* Properties of overlapping updates                                       *)
(***************************************************************************)
\* the updates of document d that were answered 200
UpdatesDone(d) ==
    {r \in 1..MaxRequests :
        /\ requests[r].kind = "update"
        /\ requests[r].documentId = d
        /\ requests[r].pc = "done"
        /\ requests[r].status = 200}

\* the first request, answered before any other arrived, created a document
CreatedFirst ==
    /\ requests[1].kind = "create"
    /\ requests[1].pc = "done"
    /\ requests[1].status = 200

\* the rows of document d are the chunks of the content stored on it, chunk i
\* at chunkIndex i
ChunksOfStoredContent(d) ==
    \A doc \in DocumentsById(d) : StoredOf(d) = UpdatedChunks(doc.content)

\* C27: two update requests of one document, arrived after its create was
\* answered, leave the document, once both have been answered, with the
\* chunkIndex values 0 .. N-1, each once, on chunks that all come from the
\* content then stored on the document.
C27_TwoUpdatesLeaveDenseChunks ==
    \A d \in 1..MaxDocuments :
        (Quiet /\ CreatedFirst /\ Cardinality(UpdatesDone(d)) = 2)
            => ChunksOfStoredContent(d)

Max(a, b) == IF a >= b THEN a ELSE b

\* C28: for every text and every choice of chunkSize and overlap, overlap >=
\* chunkSize included, each close of a chunk made by chunkText is followed by
\* the append of a sentence not placed before, and the number of returned
\* chunks is at most max(1, number of sentences).
C28_ChunkCountBounded ==
    out.called =>
        /\ Len(out.result) <= Max(1, Len(Sentences))
        /\ \A k \in 1..Len(out.run.starts) :
              /\ out.run.starts[k] \in 2..Len(Sentences)
              /\ k > 1 => out.run.starts[k - 1] < out.run.starts[k]

\* a call with overlap >= chunkSize that closed a chunk at every sentence
\* after the first, each time with a seed
C28_Witness ==
    /\ out.called
    /\ overlap >= chunkSize
    /\ Len(Sentences) >= 3
    /\ Len(out.result) = Len(Sentences)
    /\ \A k \in 1..Len(out.run.seeds) : out.run.seeds[k] # <<>>

(***************************************************************************)
(* Properties of the ownership check                                       *)
(***************************************************************************)
\* request r arrives in this step as a GET, PUT or DELETE of a document that
\* is not a document of its user
NonOwnerArrives(r) ==
    /\ requests[r].pc = "idle"
    /\ requests'[r].kind \in {"get", "update", "delete"}
    /\ \A doc \in DocumentsById(requests'[r].documentId) :
          doc.userId # requests'[r].user

\* 403 for a document of another user, 404 for no document
RefusalStatus(documentId) ==
    IF DocumentsById(documentId) = {} THEN 404 ELSE 403

\* the request is answered in the step of its arrival and nothing stored
\* changes; an answered request takes no further step (no embedding call)
AnsweredWithoutEffect(r) ==
    /\ requests'[r].pc = "done"
    /\ UNCHANGED <<documents, documentChunks, lastDocumentId, lastChunkId>>

AnsweredRequestsRest ==
    \A r \in 1..FewRequests :
        requests[r].pc = "done" => requests'[r] = requests[r]

Accepted(p) == posts[p].status = 200

TerminalTypes == {"done", "error"}

AssistantStored(p) ==
    \E i \in 1..Len(messagesTable) : messagesTable[i].messageId = <<p, "assistant">>

\* chunk events only, then one terminal event; closed exactly from that event on
ChunksThenTerminal(p) ==
    LET events == posts[p].events IN
    /\ \A i \in 1..(Len(events) - 1) : events[i].type = "chunk"
    /\ posts[p].closed <=> (events # <<>> /\ events[Len(events)].type \in TerminalTypes)

\* a closed stream whose request stored its assistant message ended with done
StoredOnlyWhenDone(p) ==
    LET events == posts[p].events IN
    (posts[p].closed /\ AssistantStored(p)) => events[Len(events)].type = "done"

\* a done event on the stream finds the assistant message in the table
StoredBeforeDone(p) ==
    (\E i \in 1..Len(posts[p].events) : posts[p].events[i].type = "done")
        => AssistantStored(p)

\* C30: for every accepted message POST the event stream is chunk events, then
\* exactly one terminal event (done or error), then closed; the assistant
\* message is stored only when the terminal event is done, and it is stored
\* before that event is sent.
C30_EventStream ==
    \A p \in 1..MaxPosts :
        Accepted(p) =>
            /\ ChunksThenTerminal(p)
            /\ StoredOnlyWhenDone(p)
            /\ StoredBeforeDone(p)

====
